---- MODULE Spec2Model ----
(***************************************************************************)
(* Smart Life Hub (smartlife_automation.py) and the Bengaluru restaurant   *)
(* filter (filter_bangalore_csv.py): the file-backed record managers       *)
(* (reminders.json, expenses.csv, budget.json, goals.json), their derived  *)
(* analytics, and the two restaurant queries.                              *)
(*                                                                         *)
(* Conventions.                                                            *)
(*  - A text is a sequence of one-character strings.                       *)
(*  - A calendar date is a day number (days since 1970-01-01); a moment is *)
(*    [day, min] with min the minute of the day.                           *)
(*  - A persisted date/time string is a record [fmt, day, min]: fmt "ymd"  *)
(*    is "%Y-%m-%d", "ymdhm" is "%Y-%m-%d %H:%M", "bad" matches neither,   *)
(*    "empty" is the empty cell of a CSV file.                             *)
(*  - Amounts are whole rupees; a quotient is kept as [num, den].          *)
(*  - A JSON file is [st, recs]: st "absent" (no file), "ok" (a complete   *)
(*    document holding recs) or "partial" (opened for writing, truncated,  *)
(*    the closing bracket not yet written).  expenses.csv likewise, where  *)
(*    "partial" is the file of zero bytes that open(path, "w") leaves.     *)
(***************************************************************************)
EXTENDS Integers, Sequences, FiniteSets, TLC

VARIABLES
    clock,          \* datetime.datetime.now(): [day, min]
    remFile,        \* reminders.json
    remOut,         \* what the last reminder operation did / returned
    expFile,        \* expenses.csv
    budFile,        \* budget.json
    expOut,         \* what the last expense / budget operation did / returned
    goalFile,       \* goals.json
    goalOut,        \* what the last goal operation did / returned
    catalog,        \* Bengaluru_Restaurants.csv (rows as written in the file)
    catOut,         \* what the last restaurant query returned
    sess,           \* concurrent dashboard sessions (script runs), per session
    pandas2         \* the installed pandas is 2.x (no version is pinned)

vars == <<clock, remFile, remOut, expFile, budFile, expOut, goalFile, goalOut,
          catalog, catOut, sess, pandas2>>

remVars == <<remFile, remOut>>
expVars == <<expFile, budFile, expOut>>
goalVars == <<goalFile, goalOut>>
catVars == <<catalog, catOut>>

-----------------------------------------------------------------------------
(* Bounds *)

\* First day of the modelled window: 20085 is Saturday 2024-12-28.
FirstDay == 20085
\* Number of days after FirstDay the clock may reach.
MaxDays == 3
\* Longest reminder list the model adds to.
MaxReminders == 2

Days == FirstDay .. (FirstDay + MaxDays)
\* 00:00 and 09:00 (the time widget's default).
Minutes == {0, 540}

-----------------------------------------------------------------------------
(* Texts *)

RECURSIVE LStrip(_)
LStrip(s) == IF s # <<>> /\ Head(s) = " " THEN LStrip(Tail(s)) ELSE s

RECURSIVE RStrip(_)
RStrip(s) ==
    IF s # <<>> /\ s[Len(s)] = " " THEN RStrip(SubSeq(s, 1, Len(s) - 1)) ELSE s

\* str.strip()
Strip(s) == RStrip(LStrip(s))

-----------------------------------------------------------------------------
(* Dates and times *)

NoOut == [op |-> "none"]
Absent == [st |-> "absent", recs |-> <<>>]
\* What open(path, "w") leaves until the first write reaches the file.
Truncated == [st |-> "partial", recs |-> <<>>]
JsonDoc(recs) == [st |-> "ok", recs |-> recs]

\* date.isoformat() / strftime("%Y-%m-%d")
IsoFormat(day) == [fmt |-> "ymd", day |-> day, min |-> 0]
\* strftime("%Y-%m-%d %H:%M")
FormatDateTime(day, min) == [fmt |-> "ymdhm", day |-> day, min |-> min]
BadTime == [fmt |-> "bad", day |-> 0, min |-> 0]

ParseFail == [ok |-> FALSE, day |-> 0, min |-> 0]
\* datetime.datetime.strptime(s, "%Y-%m-%d %H:%M"): ValueError unless s has
\* exactly that shape.
StrptimeDateTime(s) ==
    IF s.fmt = "ymdhm" THEN [ok |-> TRUE, day |-> s.day, min |-> s.min]
    ELSE ParseFail
\* datetime.datetime.strptime(s, "%Y-%m-%d"): midnight of that day;
\* ValueError on anything else (a trailing " HH:MM" is unconverted data).
StrptimeDate(s) ==
    IF s.fmt = "ymd" THEN [ok |-> TRUE, day |-> s.day, min |-> 0]
    ELSE ParseFail

\* datetime <= datetime
MomentLeq(a, b) == a.day < b.day \/ (a.day = b.day /\ a.min <= b.min)

-----------------------------------------------------------------------------
(* ReminderManager *)

\* A back-fill that marks the old records done.
BackFillCompleted(task) ==
    IF "completed" \in DOMAIN task THEN task
    ELSE [task |-> task.task, time |-> task.time, completed |-> TRUE]

\* ReminderManager.load: a record without "completed" gets completed = False.
BackFill(task) ==
    IF "completed" \in DOMAIN task THEN task
    ELSE [task |-> task.task, time |-> task.time, completed |-> FALSE]

\* load without its except FileNotFoundError clause
ReminderLoadNoCatch(file) ==
    IF file.st = "ok"
    THEN [ok |-> TRUE, data |-> [i \in 1 .. Len(file.recs) |-> BackFill(file.recs[i])]]
    ELSE [ok |-> FALSE, data |-> <<>>]

\* ReminderManager.load.  json.load of reminders.json: FileNotFoundError is
\* caught, JSONDecodeError (a truncated document) is not.
ReminderLoad(file) ==
    CASE file.st = "absent" -> [ok |-> TRUE, data |-> <<>>]
      [] file.st = "ok" ->
            [ok |-> TRUE, data |-> [i \in 1 .. Len(file.recs) |-> BackFill(file.recs[i])]]
      [] OTHER -> [ok |-> FALSE, data |-> <<>>]

\* A save that tidies the list: the completed reminders are not written.
ReminderSaveDropDone(tasks) ==
    JsonDoc(SelectSeq(tasks, LAMBDA t : ~t.completed))

\* open(path, "w") followed by json.dump and the close of the with block,
\* run to completion.
ReminderSave(tasks) == JsonDoc(tasks)

\* A slip of the date-only comparison: due on its day only.
DueByDateOnTheDay(parsed, now) == parsed.day = now.day

\* The date-only comparison: task_time.date() <= now.date().
DueByDate(parsed, now) == parsed.day <= now.day

\* One reminder of check_reminders' loop: is its text appended?
IsReported(task, now) ==
    /\ ~task.completed
    /\ LET dt == StrptimeDateTime(task.time)
           d == StrptimeDate(task.time)
       IN IF dt.ok THEN MomentLeq(dt, now)
          ELSE IF d.ok THEN DueByDate(d, now)
          ELSE FALSE

\* A loop that ends at the first time it cannot parse (break for continue).
RECURSIVE NotificationsUntilBad(_, _)
NotificationsUntilBad(tasks, now) ==
    IF tasks = <<>> THEN <<>>
    ELSE IF ~Head(tasks).completed /\ ~StrptimeDateTime(Head(tasks).time).ok
            /\ ~StrptimeDate(Head(tasks).time).ok
         THEN <<>>
    ELSE (IF IsReported(Head(tasks), now) THEN <<Head(tasks).task>> ELSE <<>>)
         \o NotificationsUntilBad(Tail(tasks), now)

RECURSIVE Notifications(_, _)
Notifications(tasks, now) ==
    IF tasks = <<>> THEN <<>>
    ELSE (IF IsReported(Head(tasks), now) THEN <<Head(tasks).task>> ELSE <<>>)
         \o Notifications(Tail(tasks), now)

CheckRemindersOf(file, now) ==
    LET l == ReminderLoad(file)
    IN IF l.ok THEN [ok |-> TRUE, data |-> Notifications(l.data, now)]
       ELSE [ok |-> FALSE, data |-> <<>>]

\* show_reminders: the list the toggle buttons are drawn for, as positions in
\* the loaded list ("All", "Pending", "Completed").
RECURSIVE FilteredIdx(_, _, _)
FilteredIdx(tasks, view, i) ==
    IF i > Len(tasks) THEN <<>>
    ELSE (IF \/ view = "All"
             \/ (view = "Pending" /\ ~tasks[i].completed)
             \/ (view = "Completed" /\ tasks[i].completed)
          THEN <<i>> ELSE <<>>) \o FilteredIdx(tasks, view, i + 1)

Views == {"All", "Pending", "Completed"}
RemTexts == {<<"a">>, <<" ", "b", " ">>}
Moments == [day : Days, min : Minutes]
MomentLt(a, b) == MomentLeq(a, b) /\ a # b

\* "Add Reminder" button (with a non-empty text): ReminderManager.add.
ReminderAdd(text, day, min) ==
    /\ text # <<>>
    /\ remFile.st # "partial" => Len(remFile.recs) < MaxReminders
    /\ LET l == ReminderLoad(remFile)
           rec == [task |-> Strip(text), time |-> FormatDateTime(day, min),
                   completed |-> FALSE]
       IN IF l.ok
          THEN /\ remFile' = ReminderSave(Append(l.data, rec))
               /\ remOut' = [op |-> "add", ok |-> TRUE, data |-> <<rec>>]
          ELSE /\ remFile' = remFile
               /\ remOut' = [op |-> "add", ok |-> FALSE, data |-> <<>>]
    /\ UNCHANGED <<clock, expVars, goalVars, catVars, sess, pandas2>>

\* "Toggle" button number k of the view.
ReminderToggle(view, k) ==
    /\ LET l == ReminderLoad(remFile)
           idx == FilteredIdx(l.data, view, 1)
       IN /\ l.ok
          /\ k \in 1 .. Len(idx)
          /\ remFile' = ReminderSave(
                 [l.data EXCEPT ![idx[k]].completed = ~l.data[idx[k]].completed])
          /\ remOut' = [op |-> "toggle", ok |-> TRUE, data |-> <<idx[k]>>]
    /\ UNCHANGED <<clock, expVars, goalVars, catVars, sess, pandas2>>

\* show_notifications: ReminderManager.check_reminders at the current time.
CheckReminders ==
    /\ remOut' = [op |-> "check"] @@ CheckRemindersOf(remFile, clock)
    /\ UNCHANGED <<clock, remFile, expVars, goalVars, catVars, sess, pandas2>>

\* Time passes.
Tick ==
    /\ \E m \in Moments : MomentLt(clock, m) /\ clock' = m
    /\ remOut' = NoOut
    /\ UNCHANGED <<remFile, expVars, goalVars, catVars, sess, pandas2>>

\* reminders.json as older versions of the program (or an editor) left it:
\* date-only and unparseable times, records without "completed".
LegacyReminderFiles ==
    { Absent,
      JsonDoc(<<>>),
      JsonDoc(<<[task |-> <<"m">>, time |-> IsoFormat(FirstDay + 1)]>>),
      JsonDoc(<<[task |-> <<"x">>, time |-> BadTime, completed |-> FALSE]>>) }

InitClock == clock \in {m \in Moments : m.day = FirstDay}
InitRem == remFile = Absent /\ remOut = NoOut
InitExp == expFile = Absent /\ budFile = Absent /\ expOut = NoOut
InitGoal == goalFile = Absent /\ goalOut = NoOut
InitCat == catalog = <<>> /\ catOut = NoOut
InitSess == sess = <<>> /\ pandas2 = TRUE
InitSessAnyPandas == sess = <<>> /\ pandas2 \in BOOLEAN

InitReminders ==
    /\ InitClock
    /\ remFile \in LegacyReminderFiles
    /\ remOut = NoOut
    /\ InitExp /\ InitGoal /\ InitCat /\ InitSess

NextReminders ==
    \/ \E text \in RemTexts, day \in {clock.day + 1} \cap Days :
         ReminderAdd(text, day, 540)
    \/ \E view \in Views, k \in 1 .. (MaxReminders + 1) : ReminderToggle(view, k)
    \/ CheckReminders
    \/ Tick

SpecReminders == InitReminders /\ [][NextReminders]_vars

-----------------------------------------------------------------------------
(* The calendar (datetime.date, pandas .dt accessors) *)

\* Monday = 0 .. Sunday = 6; day 0 (1970-01-01) is a Thursday.
Weekday(d) == (d + 3) % 7

\* The proleptic Gregorian date [y, m, d] of a day number.
CivilFromDays(day) ==
    LET z == day + 719468
        era == z \div 146097
        doe == z - era * 146097
        yoe == (doe - doe \div 1460 + doe \div 36524 - doe \div 146096) \div 365
        doy == doe - (365 * yoe + yoe \div 4 - yoe \div 100)
        mp == (5 * doy + 2) \div 153
        dd == doy - (153 * mp + 2) \div 5 + 1
        mm == IF mp < 10 THEN mp + 3 ELSE mp - 9
    IN [y |-> yoe + era * 400 + (IF mm <= 2 THEN 1 ELSE 0), m |-> mm, d |-> dd]

DaysFromCivil(y, m, d) ==
    LET y2 == IF m <= 2 THEN y - 1 ELSE y
        era == y2 \div 400
        yoe == y2 - era * 400
        mp == IF m > 2 THEN m - 3 ELSE m + 9
        doy == (153 * mp + 2) \div 5 + d - 1
        doe == yoe * 365 + yoe \div 4 - yoe \div 100 + doy
    IN era * 146097 + doe - 719468

\* date.replace(day=1)
StartOfMonth(day) == day - (CivilFromDays(day).d - 1)

\* Series.dt.isocalendar().week: the week (1..53) of the ISO year that holds
\* the Thursday of the date's week.
IsoWeek(day) ==
    LET thursday == day - Weekday(day) + 3
        jan1 == DaysFromCivil(CivilFromDays(thursday).y, 1, 1)
    IN (thursday - jan1) \div 7 + 1

\* Series.dt.day_name(), and the names in the order groupby sorts them.
DayName(day) ==
    <<"Monday", "Tuesday", "Wednesday", "Thursday", "Friday", "Saturday",
      "Sunday">>[Weekday(day) + 1]
DayNamesSorted ==
    <<"Friday", "Monday", "Saturday", "Sunday", "Thursday", "Tuesday",
      "Wednesday">>

-----------------------------------------------------------------------------
(* pandas: expenses.csv and the DataFrame read from it *)

\* A cell of the Date column in memory: a Timestamp, NaT, or still a string.
Timestamp(day) == [fmt |-> "Timestamp", day |-> day, min |-> 0]
NaT == [fmt |-> "NaT", day |-> 0, min |-> 0]
\* str(Timestamp): "%Y-%m-%d 00:00:00"
TimestampStr(day) == [fmt |-> "ymdhms", day |-> day, min |-> 0]
EmptyCell == [fmt |-> "empty", day |-> 0, min |-> 0]

IsNull(c) == c.fmt \in {"NaT", "empty"}
IsDateText(c) == c.fmt \in {"ymd", "ymdhms"}

\* The first string of the column that is not null, if any.
RECURSIVE FirstText(_)
FirstText(col) ==
    IF col = <<>> THEN EmptyCell
    ELSE IF ~IsNull(Head(col)) THEN Head(col)
    ELSE FirstText(Tail(col))

\* pd.to_datetime(column, errors='coerce').  A datetime64 column is returned
\* as it is.  Of strings, pandas 1.x parses each cell on its own; pandas 2.x
\* parses every cell with the format of the first non-null cell (a cell in
\* another format becomes NaT), and falls back to cell-by-cell parsing when
\* that first cell has no format it recognises.
ToDatetimeCell(c, first, strict) ==
    IF c.fmt = "Timestamp" THEN c
    ELSE IF IsDateText(c) /\ (strict /\ IsDateText(first) => c.fmt = first.fmt)
         THEN Timestamp(c.day)
    ELSE NaT

ToDatetime(col, strict) ==
    [i \in 1 .. Len(col) |-> ToDatetimeCell(col[i], FirstText(col), strict)]

DateCol(rows) == [i \in 1 .. Len(rows) |-> rows[i].Date]
WithDates(rows, col) ==
    [i \in 1 .. Len(rows) |-> [rows[i] EXCEPT !.Date = col[i]]]

\* A DataFrame: its columns, the dtype of its Date column and its rows
\* (ok: the call that made it returned).
Frame(dtype, rows) ==
    [ok |-> TRUE, cols |-> <<"Item", "Amount", "Date">>, dtype |-> dtype,
     rows |-> rows]
\* pd.read_csv of a file of zero bytes raises EmptyDataError.
NoFrame == [ok |-> FALSE, cols |-> <<>>, dtype |-> "object", rows |-> <<>>]
CsvDoc(rows) == [st |-> "ok", recs |-> rows]

\* ExpenseManager.load (expenses.csv always has the header Item,Amount,Date).
ExpenseLoad(file, strict) ==
    IF file.st = "absent" THEN Frame("object", <<>>)
    ELSE IF file.st = "partial" THEN NoFrame
    ELSE Frame("datetime64",
               WithDates(file.recs, ToDatetime(DateCol(file.recs), strict)))

\* DataFrame.to_csv(index=False), one Date cell: a datetime64 column of
\* midnights is written as dates; in an object column every cell is written
\* with str(), NaT and NaN as the empty string.
ToCsvCell(c, dtype) ==
    IF IsNull(c) THEN EmptyCell
    ELSE IF c.fmt = "Timestamp"
         THEN (IF dtype = "datetime64" THEN IsoFormat(c.day) ELSE TimestampStr(c.day))
    ELSE c

\* ExpenseManager.save
ExpenseSave(df) ==
    CsvDoc([i \in 1 .. Len(df.rows) |->
              [df.rows[i] EXCEPT !.Date = ToCsvCell(df.rows[i].Date, df.dtype)]])

\* pd.concat([df, new_row], ignore_index=True): the Date column of the result
\* is of dtype object, since the new row's Date is a string.
Concat(df, row) == Frame("object", Append(df.rows, row))

\* Series.sum() over the rows that satisfy keep
RECURSIVE SumAmount(_)
SumAmount(rows) ==
    IF rows = <<>> THEN 0 ELSE Head(rows).Amount + SumAmount(Tail(rows))

\* rows whose Date is a Timestamp on or after the day (NaT compares False)
RECURSIVE RowsSince(_, _)
RowsSince(rows, day) ==
    IF rows = <<>> THEN <<>>
    ELSE (IF Head(rows).Date.fmt = "Timestamp" /\ Head(rows).Date.day >= day
          THEN <<Head(rows)>> ELSE <<>>) \o RowsSince(Tail(rows), day)

\* df.dropna(subset=['Date'])
RECURSIVE DropNa(_)
DropNa(rows) ==
    IF rows = <<>> THEN <<>>
    ELSE (IF IsNull(Head(rows).Date) THEN <<>> ELSE <<Head(rows)>>)
         \o DropNa(Tail(rows))

-----------------------------------------------------------------------------
(* BudgetManager *)

\* budget.json holds one object; recs is that dict ({} is the empty tuple).
BudgetLoad(file) ==
    CASE file.st = "absent" -> [ok |-> TRUE, data |-> <<>>]
      [] file.st = "ok" -> [ok |-> TRUE, data |-> file.recs]
      [] OTHER -> [ok |-> FALSE, data |-> <<>>]

BudgetSave(budget_data) == JsonDoc(budget_data)

\* An assignment that starts from an empty dict.
DictSetAlone(d, key, value) == [k \in {key} |-> value]

\* budget_data[key] = value
DictSet(d, key, value) ==
    [k \in DOMAIN d \cup {key} |-> IF k = key THEN value ELSE d[k]]

\* The two fixed thresholds, in percent.
ExceededPct == 100
WarningPct == 80

\* A slip of the comparison: strictly above the threshold.
PctAbove(spent, weekly_budget, threshold) ==
    spent * 100 > threshold * weekly_budget

\* percentage >= threshold, for percentage = (spent / weekly_budget) * 100
PctAtLeast(spent, weekly_budget, threshold) ==
    spent * 100 >= threshold * weekly_budget

\* BudgetManager.get_budget_alerts(expenses_df)
BudgetAlertsOf(file, df, strict) ==
    LET l == BudgetLoad(file)
    IN IF ~l.ok THEN [ok |-> FALSE, data |-> <<>>]
       ELSE IF "weekly_budget" \notin DOMAIN l.data THEN [ok |-> TRUE, data |-> <<>>]
       ELSE IF "week_start" \notin DOMAIN l.data THEN [ok |-> FALSE, data |-> <<>>]
       ELSE LET weekly_budget == l.data["weekly_budget"]
                week_start == StrptimeDate(l.data["week_start"])
            IN IF ~week_start.ok THEN [ok |-> FALSE, data |-> <<>>]
               ELSE IF df.rows = <<>> THEN [ok |-> TRUE, data |-> <<>>]
               ELSE LET dated == WithDates(df.rows, ToDatetime(DateCol(df.rows), strict))
                        this_week_expenses == SumAmount(RowsSince(dated, week_start.day))
                    IN [ok |-> TRUE,
                        data |->
                          IF PctAtLeast(this_week_expenses, weekly_budget, ExceededPct)
                          THEN <<[kind |-> "exceeded", spent |-> this_week_expenses,
                                  budget |-> weekly_budget]>>
                          ELSE IF PctAtLeast(this_week_expenses, weekly_budget, WarningPct)
                          THEN <<[kind |-> "warning", spent |-> this_week_expenses,
                                  budget |-> weekly_budget]>>
                          ELSE <<>>]

-----------------------------------------------------------------------------
(* ExpenseManager.get_spending_insights *)

Msg(kind, day, a, b) == [kind |-> kind, day |-> day, a |-> a, b |-> b]

\* groupby('Day')['Amount'].sum(): the sum of one group
DaySum(rows, name) == SumAmount(SelectSeq(rows, LAMBDA r : DayName(r.Date.day) = name))
WeekSum(rows, week) == SumAmount(SelectSeq(rows, LAMBDA r : IsoWeek(r.Date.day) = week))

\* Series.idxmax(): the first label, in the sorted order of the groups, whose
\* sum is the largest.
HighestDay(rows) ==
    LET present == {DayName(rows[i].Date.day) : i \in 1 .. Len(rows)}
        best == CHOOSE k \in 1 .. 7 :
                  /\ DayNamesSorted[k] \in present
                  /\ \A j \in 1 .. 7 :
                       DayNamesSorted[j] \in present =>
                         \/ DaySum(rows, DayNamesSorted[j]) < DaySum(rows, DayNamesSorted[k])
                         \/ (DaySum(rows, DayNamesSorted[j]) = DaySum(rows, DayNamesSorted[k])
                             /\ k <= j)
    IN DayNamesSorted[best]

\* The labels of groupby('Week'): the week numbers present; iloc[-1] is the
\* group of the largest number, iloc[-2] that of the next largest.
Weeks(rows) == {IsoWeek(rows[i].Date.day) : i \in 1 .. Len(rows)}
MaxOf(S) == CHOOSE x \in S : \A y \in S : y <= x

WeekTrend(rows) ==
    LET weeks == Weeks(rows)
    IN IF Cardinality(weeks) >= 2
       THEN LET last_week == WeekSum(rows, MaxOf(weeks))
                second_last == WeekSum(rows, MaxOf(weeks \ {MaxOf(weeks)}))
            IN IF last_week > second_last
               THEN <<Msg("week_up", "", (last_week - second_last) * 100, second_last)>>
               ELSE <<>>
       ELSE <<>>

MonthTrend(rows, today) ==
    LET start_of_month == StartOfMonth(today)
        last_month == StartOfMonth(start_of_month - 1)
        this_month == SumAmount(RowsSince(rows, start_of_month))
        last_month_spent ==
            SumAmount(SelectSeq(RowsSince(rows, last_month),
                                LAMBDA r : r.Date.day < start_of_month))
    IN IF last_month_spent > 0 /\ this_month > 0
          /\ (this_month - last_month_spent) * 100 > 10 * last_month_spent
       THEN <<Msg("month_up", "", (this_month - last_month_spent) * 100, last_month_spent)>>
       ELSE <<>>

NoDataMsg == Msg("no_data", "", 0, 0)

\* get_spending_insights without its df.empty test.
InsightsNoEmptyTest(file, today, strict) ==
    LET df == ExpenseLoad(file, strict)
        rows == DropNa(WithDates(df.rows, ToDatetime(DateCol(df.rows), strict)))
    IN (IF rows # <<>> THEN <<Msg("highest_day", HighestDay(rows), 0, 0)>> ELSE <<>>)
       \o WeekTrend(rows) \o MonthTrend(rows, today)

\* ExpenseManager.get_spending_insights()
InsightsOf(file, today, strict) ==
    LET df == ExpenseLoad(file, strict)
    IN IF df.rows = <<>> THEN <<NoDataMsg>>
       ELSE LET rows == DropNa(WithDates(df.rows, ToDatetime(DateCol(df.rows), strict)))
            IN (IF rows # <<>> THEN <<Msg("highest_day", HighestDay(rows), 0, 0)>>
                ELSE <<>>)
               \o WeekTrend(rows) \o MonthTrend(rows, today)

-----------------------------------------------------------------------------
(* The expenses page *)

\* Longest ledger the model adds to.
MaxExpenses == 2

Items == {<<"t">>}
Amounts == {1, 799, 1000}
Budgets == {100, 1000}

\* "Add Expense" button (with an item and an amount > 0): ExpenseManager.add.
ExpenseAdd(item, amount) ==
    /\ item # <<>> /\ amount > 0
    /\ Len(expFile.recs) < MaxExpenses
    /\ LET df == ExpenseLoad(expFile, pandas2)
           new_row == [Item |-> item, Amount |-> amount, Date |-> IsoFormat(clock.day)]
       IN IF df.ok
          THEN /\ expFile' = ExpenseSave(Concat(df, new_row))
               /\ expOut' = [op |-> "add", ok |-> TRUE, data |-> <<new_row>>]
          ELSE /\ expFile' = expFile
               /\ expOut' = [op |-> "add", ok |-> FALSE, data |-> <<>>]
    /\ UNCHANGED <<clock, budFile, remVars, goalVars, catVars, sess, pandas2>>

\* "Set Budget" button: BudgetManager.set_weekly_budget.
SetWeeklyBudget(amount) ==
    /\ LET l == BudgetLoad(budFile)
       IN IF l.ok
          THEN /\ budFile' = BudgetSave(
                     DictSet(DictSet(l.data, "weekly_budget", amount),
                             "week_start", IsoFormat(clock.day)))
               /\ expOut' = [op |-> "set_budget", ok |-> TRUE, data |-> <<amount>>]
          ELSE /\ budFile' = budFile
               /\ expOut' = [op |-> "set_budget", ok |-> FALSE, data |-> <<>>]
    /\ UNCHANGED <<clock, expFile, remVars, goalVars, catVars, sess, pandas2>>

\* Top of show_expenses: df = em.load(); bm.get_budget_alerts(df).
GetBudgetAlerts ==
    /\ LET df == ExpenseLoad(expFile, pandas2)
       IN expOut' = [op |-> "alerts"] @@
                    (IF df.ok THEN BudgetAlertsOf(budFile, df, pandas2)
                     ELSE [ok |-> FALSE, data |-> <<>>])
    /\ UNCHANGED <<clock, expFile, budFile, remVars, goalVars, catVars, sess, pandas2>>

\* "Budget & Insights" tab: em.get_spending_insights().
GetSpendingInsights ==
    /\ expOut' = [op |-> "insights"] @@
                 (IF ExpenseLoad(expFile, pandas2).ok
                  THEN [ok |-> TRUE, data |-> InsightsOf(expFile, clock.day, pandas2)]
                  ELSE [ok |-> FALSE, data |-> <<>>])
    /\ UNCHANGED <<clock, expFile, budFile, remVars, goalVars, catVars, sess, pandas2>>

\* Midnight passes.
NewDay ==
    /\ clock.day < FirstDay + MaxDays
    /\ clock' = [day |-> clock.day + 1, min |-> 0]
    /\ expOut' = NoOut /\ goalOut' = NoOut
    /\ UNCHANGED <<expFile, budFile, goalFile, remVars, catVars, sess, pandas2>>

ExpRow(item, amount, date) == [Item |-> item, Amount |-> amount, Date |-> date]

\* expenses.csv as earlier runs or an editor left it: a header and no rows;
\* rows of last month and last week; a row whose Date is not a date.
LegacyExpenseFiles ==
    { Absent,
      CsvDoc(<<>>),
      CsvDoc(<<ExpRow(<<"o">>, 200, IsoFormat(FirstDay - 30))>>),
      CsvDoc(<<ExpRow(<<"o">>, 1, IsoFormat(FirstDay - 6)),
               ExpRow(<<"p">>, 200, BadTime)>>) }

InitExpenses ==
    /\ clock = [day |-> FirstDay, min |-> 0]
    /\ expFile \in LegacyExpenseFiles
    /\ budFile = Absent
    /\ expOut = NoOut
    /\ InitRem /\ InitGoal /\ InitCat /\ InitSessAnyPandas

NextExpenses ==
    \/ \E item \in Items, amount \in Amounts : ExpenseAdd(item, amount)
    \/ \E amount \in Budgets : SetWeeklyBudget(amount)
    \/ GetBudgetAlerts
    \/ GetSpendingInsights
    \/ NewDay

SpecExpenses == InitExpenses /\ [][NextExpenses]_vars

-----------------------------------------------------------------------------
(* GoalManager *)

GoalLoad(file) ==
    CASE file.st = "absent" -> [ok |-> TRUE, data |-> <<>>]
      [] file.st = "ok" -> [ok |-> TRUE, data |-> file.recs]
      [] OTHER -> [ok |-> FALSE, data |-> <<>>]

\* A save that writes days_left along with the stored fields.
GoalSaveWithDerived(goals) ==
    JsonDoc([i \in 1 .. Len(goals) |->
               [days_left |-> StrptimeDate(goals[i].target_date).day - clock.day]
               @@ goals[i]])

\* GoalManager.save
GoalSave(goals) == JsonDoc(goals)

\* The length of a month in GoalManager.add.
DaysPerMonth == 30

\* A month taken as 31 days.
TargetDateLongMonths(today, timeframe_months) ==
    IsoFormat(today + 31 * timeframe_months)

\* (date.today() + timedelta(days=30 * timeframe_months)).isoformat()
TargetDate(today, timeframe_months) ==
    IsoFormat(today + DaysPerMonth * timeframe_months)

\* The dict GoalManager.add appends.
NewGoal(name, target_amount, timeframe_months, today) ==
    [name |-> name,
     target_amount |-> target_amount,
     current_amount |-> 0,
     timeframe_months |-> timeframe_months,
     created |-> IsoFormat(today),
     target_date |-> TargetDate(today, timeframe_months)]

\* The guard of update_progress without its lower bound.
IndexBelowLen(goal_index, n) == goal_index < n

\* 0 <= goal_index < len(goals)
IndexInRange(goal_index, n) == 0 <= goal_index /\ goal_index < n

\* goals[goal_index]: a Python list counts a negative index from the end.
PyIndex(goal_index, n) == IF goal_index >= 0 THEN goal_index + 1 ELSE n + goal_index + 1

\* GoalManager.update_progress: the file afterwards, and whether it returned.
UpdateProgressOf(file, goal_index, amount_added) ==
    LET l == GoalLoad(file)
        n == Len(l.data)
        k == PyIndex(goal_index, n)
    IN IF ~l.ok THEN [ok |-> FALSE, file |-> file]
       ELSE IF ~IndexInRange(goal_index, n) THEN [ok |-> TRUE, file |-> file]
       ELSE IF k \notin 1 .. n \/ "current_amount" \notin DOMAIN l.data[k]
            THEN [ok |-> FALSE, file |-> file]
       ELSE [ok |-> TRUE,
             file |-> GoalSave([l.data EXCEPT ![k].current_amount = @ + amount_added])]

\* A loop body that tests days_left >= 0: a goal due today gets derived
\* fields (and a division by days_left = 0).
GoalProgressDueToday(goal, today, total_spent, nrows) ==
    IF {"target_date", "target_amount", "current_amount"} \subseteq DOMAIN goal
       /\ StrptimeDate(goal.target_date).ok
       /\ StrptimeDate(goal.target_date).day - today >= 0
    THEN LET days_left == StrptimeDate(goal.target_date).day - today
         IN [daily_saving |-> [num |-> goal.target_amount - goal.current_amount,
                               den |-> days_left],
             days_left |-> days_left] @@ goal
    ELSE goal

\* One goal of get_progress' loop.  Any exception (a target_date that does
\* not parse, a missing key) leaves the goal as it was loaded.
GoalProgress(goal, today, total_spent, nrows) ==
    IF {"target_date", "target_amount", "current_amount"} \subseteq DOMAIN goal
       /\ StrptimeDate(goal.target_date).ok
    THEN LET days_left == StrptimeDate(goal.target_date).day - today
             remaining == goal.target_amount - goal.current_amount
         IN IF days_left > 0
            THEN [daily_saving |-> [num |-> remaining, den |-> days_left],
                  days_left |-> days_left]
                 @@ (IF total_spent > 0 /\ nrows > 10
                        /\ total_spent * days_left > 2 * remaining * nrows
                     THEN [warning |-> "save more"] ELSE <<>>)
                 @@ goal
            ELSE goal
    ELSE goal

\* GoalManager.get_progress(expenses_df)
GetProgressOf(file, df, today) ==
    LET l == GoalLoad(file)
        total_spent == IF df.rows # <<>> THEN SumAmount(df.rows) ELSE 0
    IN IF ~l.ok THEN [ok |-> FALSE, data |-> <<>>]
       ELSE [ok |-> TRUE,
             data |-> [i \in 1 .. Len(l.data) |->
                         GoalProgress(l.data[i], today, total_spent, Len(df.rows))]]

-----------------------------------------------------------------------------
(* The savings goals tab *)

\* Longest goal list the model adds to.
MaxGoals == 2
\* Largest current_amount the model saves up to.
MaxSaved == 50

GoalNames == {<<"l">>}
Targets == {12000}
Timeframes == {1, 12}
\* amount_added: what the number input of the tab delivers (min_value=0.0)
\* and, for a call of update_progress from elsewhere, a negative amount.
AddAmounts == {-50, 0, 50}

\* "Set Goal" button (with a name): GoalManager.add.
GoalAdd(name, target_amount, timeframe_months) ==
    /\ name # <<>>
    /\ Len(goalFile.recs) < MaxGoals
    /\ LET l == GoalLoad(goalFile)
           goal == NewGoal(name, target_amount, timeframe_months, clock.day)
       IN IF l.ok
          THEN /\ goalFile' = GoalSave(Append(l.data, goal))
               /\ goalOut' = [op |-> "add", ok |-> TRUE, before |-> goalFile,
                              index |-> 0, amount |-> 0]
          ELSE /\ goalFile' = goalFile
               /\ goalOut' = [op |-> "add", ok |-> FALSE, before |-> goalFile,
                              index |-> 0, amount |-> 0]
    /\ UNCHANGED <<clock, expVars, remVars, catVars, sess, pandas2>>

\* GoalManager.update_progress(goal_index, amount_added); the "Add" button of
\* goal i calls it with the goal's position in the list.
UpdateProgress(goal_index, amount_added) ==
    /\ \A k \in 1 .. Len(goalFile.recs) :
         "current_amount" \in DOMAIN goalFile.recs[k] =>
           /\ goalFile.recs[k].current_amount + amount_added <= MaxSaved
           /\ goalFile.recs[k].current_amount + amount_added >= 0
    /\ LET r == UpdateProgressOf(goalFile, goal_index, amount_added)
       IN /\ goalFile' = r.file
          /\ goalOut' = [op |-> "update_progress", ok |-> r.ok, before |-> goalFile,
                         index |-> goal_index, amount |-> amount_added]
    /\ UNCHANGED <<clock, expVars, remVars, catVars, sess, pandas2>>

\* The goal list of the tab: gm.get_progress(df), df = em.load().
GetProgress ==
    /\ LET df == ExpenseLoad(expFile, pandas2)
       IN goalOut' = [op |-> "progress"] @@
                     (IF df.ok THEN GetProgressOf(goalFile, df, clock.day)
                      ELSE [ok |-> FALSE, data |-> <<>>])
    /\ UNCHANGED <<clock, goalFile, expVars, remVars, catVars, sess, pandas2>>

Goal(name, target, current, months, created, target_date) ==
    [name |-> name, target_amount |-> target, current_amount |-> current,
     timeframe_months |-> months, created |-> created, target_date |-> target_date]

\* goals.json as earlier runs or an editor left it: a goal that falls due
\* inside the window, and one whose target_date is not a date.
LegacyGoalFiles ==
    { Absent,
      JsonDoc(<<Goal(<<"g">>, 100, 50, 1, IsoFormat(FirstDay - 29),
                     IsoFormat(FirstDay + 1))>>),
      JsonDoc(<<Goal(<<"h">>, 100, 0, 1, IsoFormat(FirstDay), BadTime)>>) }

\* Ledgers with more than ten rows (the warning's condition), and none.
BigLedger(amount) == CsvDoc([i \in 1 .. 11 |-> ExpRow(<<"o">>, amount, IsoFormat(FirstDay))])

InitGoals ==
    /\ clock = [day |-> FirstDay, min |-> 0]
    /\ goalFile \in LegacyGoalFiles
    /\ goalOut = NoOut
    /\ expFile \in {Absent, BigLedger(799), BigLedger(1)}
    /\ budFile = Absent /\ expOut = NoOut
    /\ InitRem /\ InitCat /\ InitSess

NextGoals ==
    \/ \E name \in GoalNames, target \in Targets, months \in Timeframes :
         GoalAdd(name, target, months)
    \/ \E goal_index \in -1 .. MaxGoals, amount \in AddAmounts :
         UpdateProgress(goal_index, amount)
    \/ GetProgress
    \/ NewDay

SpecGoals == InitGoals /\ [][NextGoals]_vars

-----------------------------------------------------------------------------
(* C4: update_progress and its index.  With an index below 0 or at least    *)
(* the number of goals, update_progress returns without error and leaves    *)
(* goals.json exactly as it was; with an index in range it adds the amount  *)
(* to current_amount of the goal at that index and changes nothing else.    *)
C4_UpdateProgressFrame ==
    (goalOut.op = "update_progress" /\ goalOut.before.st # "partial")
    =>
    LET before == GoalLoad(goalOut.before).data
        i == goalOut.index
    IN /\ goalOut.ok
       /\ (i < 0 \/ i >= Len(before)) => goalFile = goalOut.before
       /\ (0 <= i /\ i < Len(before)) =>
            /\ goalFile.st = "ok"
            /\ Len(goalFile.recs) = Len(before)
            /\ \A k \in 1 .. Len(before) :
                 IF k = i + 1
                 THEN /\ goalFile.recs[k].current_amount
                           = before[k].current_amount + goalOut.amount
                      /\ DOMAIN goalFile.recs[k] = DOMAIN before[k]
                      /\ \A f \in DOMAIN before[k] \ {"current_amount"} :
                           goalFile.recs[k][f] = before[k][f]
                 ELSE goalFile.recs[k] = before[k]

\* update_progress(-1, 50) has just returned on a list of two goals.
C4_Witness ==
    /\ goalOut.op = "update_progress" /\ goalOut.ok
    /\ goalOut.index = -1 /\ goalOut.amount = 50
    /\ Len(goalOut.before.recs) = 2
    /\ goalFile = goalOut.before

\* ... with an index equal to the length, and with an index in range.
C4_WitnessAbove ==
    /\ goalOut.op = "update_progress" /\ goalOut.ok
    /\ goalOut.index = Len(goalOut.before.recs) /\ goalOut.amount = 50
    /\ Len(goalOut.before.recs) = 2
C4_WitnessInRange ==
    /\ goalOut.op = "update_progress" /\ goalOut.ok
    /\ goalOut.index = 1 /\ goalOut.amount = 50
    /\ Len(goalOut.before.recs) = 2
    /\ goalFile.recs[2].current_amount = 50

-----------------------------------------------------------------------------
(* C5: GoalManager.add.  add appends exactly one goal at the end of the     *)
(* list, with current_amount 0, created today and target_date 30 days per   *)
(* month of the timeframe after created (12 months: 360 days), and leaves   *)
(* the goals stored before unchanged.                                       *)
C5_AddGoal ==
    (goalOut.op = "add" /\ goalOut.ok)
    =>
    LET before == GoalLoad(goalOut.before).data
        goal == goalFile.recs[Len(goalFile.recs)]
    IN /\ goalFile.st = "ok"
       /\ Len(goalFile.recs) = Len(before) + 1
       /\ SubSeq(goalFile.recs, 1, Len(before)) = before
       /\ goal.current_amount = 0
       /\ goal.created.fmt = "ymd" /\ goal.created.day = clock.day
       /\ goal.target_date.fmt = "ymd"
       /\ StrptimeDate(goal.target_date).day
            = StrptimeDate(goal.created).day + 30 * goal.timeframe_months
       /\ goal.timeframe_months = 12 =>
            goal.target_date.day = goal.created.day + 360

\* add has just appended a 12-month goal to a list that held a goal already.
C5_Witness ==
    /\ goalOut.op = "add" /\ goalOut.ok
    /\ Len(goalOut.before.recs) >= 1
    /\ Len(goalFile.recs) = Len(goalOut.before.recs) + 1
    /\ goalFile.recs[Len(goalFile.recs)].timeframe_months = 12
    /\ goalFile.recs[Len(goalFile.recs)].target_amount = 12000

-----------------------------------------------------------------------------
(* The restaurant queries *)

\* str.lower(), on the letters the model uses
LowerChar(c) ==
    CASE c = "P" -> "p" [] c = "I" -> "i" [] c = "Z" -> "z" [] OTHER -> c
Lower(s) == [i \in 1 .. Len(s) |-> LowerChar(s[i])]

\* Series.str.contains(keyword): the keyword (letters only, so the pattern
\* matches itself) occurs somewhere in the text.
Contains(text, keyword) ==
    \E k \in 0 .. (Len(text) - Len(keyword)) :
        \A j \in 1 .. Len(keyword) : text[k + j] = keyword[j]

\* Series.str.contains(keyword, case=False)
ContainsNoCase(text, keyword) ==
    \E k \in 0 .. (Len(text) - Len(keyword)) :
        \A j \in 1 .. Len(keyword) : LowerChar(text[k + j]) = LowerChar(keyword[j])

\* A text cell of the CSV file: na for an empty cell (NaN).
Cell(s) == [na |-> FALSE, s |-> s]
NaCell == [na |-> TRUE, s |-> <<>>]
\* Series.fillna("")
FillNaText(c) == IF c.na THEN <<>> ELSE c.s

\* A rating cell: a number (in tenths), an empty cell, or other text.
Rating(v) == [k |-> "num", v |-> v]
NoRating == [k |-> "nan", v |-> 0]
TextRating == [k |-> "text", v |-> 0]

\* pd.to_numeric(df["rating"], errors="coerce")
ToNumeric(r) == IF r.k = "num" THEN r ELSE NoRating
\* Series.fillna(0)
FillNaZero(r) == IF r.k = "nan" THEN Rating(0) ELSE r

\* Positions i of the sequence that satisfy the mask
RECURSIVE Masked(_, _)
Masked(mask, i) ==
    IF i > Len(mask) THEN <<>>
    ELSE (IF mask[i] THEN <<i>> ELSE <<>>) \o Masked(mask, i + 1)

\* filter_bangalore_csv.py: load_data, then filter_restaurants.
CliFilterOf(rows, main_menu, min_rating) ==
    LET keyword == Lower(Strip(main_menu))
        rating == [i \in 1 .. Len(rows) |-> ToNumeric(rows[i].rating)]
        mask == [i \in 1 .. Len(rows) |->
                   /\ \/ Contains(Lower(FillNaText(rows[i].cuisine)), keyword)
                      \/ Contains(Lower(FillNaText(rows[i].name)), keyword)
                   /\ FillNaZero(rating[i]).v >= min_rating]
    IN [ok |-> TRUE, data |-> Masked(mask, 1)]

\* show_restaurants, "Search": the rating column is compared as read_csv
\* left it.  With some cell that is not a number the column holds strings,
\* and comparing it with a float raises TypeError; NaN >= x is False.
DashboardSearchOf(rows, cuisine, min_rating) ==
    IF \E i \in 1 .. Len(rows) : rows[i].rating.k = "text"
    THEN [ok |-> FALSE, data |-> <<>>]
    ELSE LET mask == [i \in 1 .. Len(rows) |->
                        /\ \/ (~rows[i].cuisine.na
                               /\ ContainsNoCase(rows[i].cuisine.s, cuisine))
                           \/ (~rows[i].description.na
                               /\ ContainsNoCase(rows[i].description.s, cuisine))
                        /\ rows[i].rating.k = "num"
                        /\ rows[i].rating.v >= min_rating]
         IN [ok |-> TRUE, data |-> Masked(mask, 1)]

\* Longest restaurant table of the model.
MaxRows == 2

Restaurant(name, cuisine, description, rating) ==
    [name |-> name, cuisine |-> cuisine, description |-> description,
     rating |-> rating]

RestaurantRows ==
    { Restaurant(Cell(<<"P", "i">>), Cell(<<"I", "z">>), NaCell, Rating(40)),
      Restaurant(Cell(<<"z", "z">>), NaCell, Cell(<<"p", "I">>), NoRating),
      Restaurant(Cell(<<"p", "i">>), Cell(<<"p", "i">>), Cell(<<"p", "i">>), TextRating),
      Restaurant(Cell(<<"I">>), Cell(<<"Z">>), Cell(<<"z">>), Rating(41)) }

Keywords == {<<"p", "i">>, <<"P", "I">>, <<" ", "Z">>, <<>>}
\* 0.0, 4.0 and 4.1, in tenths
MinRatings == {0, 40, 41}

Tables == UNION {[1 .. n -> RestaurantRows] : n \in 1 .. MaxRows}

\* filter_bangalore_csv.py main()
CliFilter(main_menu, min_rating) ==
    /\ catOut' = [op |-> "cli", keyword |-> main_menu, min_rating |-> min_rating]
                 @@ CliFilterOf(catalog, main_menu, min_rating)
    /\ UNCHANGED <<clock, catalog, remVars, expVars, goalVars, sess, pandas2>>

\* show_restaurants: "Search" button (the page returns early on an empty table)
DashboardSearch(cuisine, min_rating) ==
    /\ catalog # <<>>
    /\ catOut' = [op |-> "dashboard", keyword |-> cuisine, min_rating |-> min_rating]
                 @@ DashboardSearchOf(catalog, cuisine, min_rating)
    /\ UNCHANGED <<clock, catalog, remVars, expVars, goalVars, sess, pandas2>>

InitCatalog ==
    /\ clock = [day |-> FirstDay, min |-> 0]
    /\ catalog \in Tables
    /\ catOut = NoOut
    /\ InitRem /\ InitExp /\ InitGoal /\ InitSess

NextCatalog ==
    \/ \E main_menu \in Keywords, min_rating \in MinRatings :
         CliFilter(main_menu, min_rating)
    \/ \E cuisine \in Keywords, min_rating \in MinRatings :
         DashboardSearch(cuisine, min_rating)

SpecCatalog == InitCatalog /\ [][NextCatalog]_vars

-----------------------------------------------------------------------------
(* C6: the catalog query at both call sites.  Whatever the case of the      *)
(* keyword, a record whose text (cuisine or name for the command-line       *)
(* filter, cuisine or description for the dashboard search) holds the       *)
(* keyword is returned exactly when its rating, taken as 0 when missing or  *)
(* unparseable, is at least min_rating; the query does not fail.            *)
C6_RatingOrZero(r) == IF r.k = "num" THEN r.v ELSE 0

C6_TextMatches(row, site, keyword) ==
    LET kw == Lower(IF site = "cli" THEN Strip(keyword) ELSE keyword)
        second == IF site = "cli" THEN row.name ELSE row.description
    IN \/ Contains(Lower(FillNaText(row.cuisine)), kw)
       \/ Contains(Lower(FillNaText(second)), kw)

C6_Expected(site, keyword, min_rating) ==
    {i \in 1 .. Len(catalog) :
        /\ C6_TextMatches(catalog[i], site, keyword)
        /\ C6_RatingOrZero(catalog[i].rating) >= min_rating}

C6_QueryInclusive ==
    catOut.op \in {"cli", "dashboard"} =>
        /\ catOut.ok
        /\ {catOut.data[j] : j \in 1 .. Len(catOut.data)}
             = C6_Expected(catOut.op, catOut.keyword, catOut.min_rating)

\* The same statement of the command-line filter alone.
C6_CliQueryInclusive ==
    catOut.op = "cli" =>
        /\ catOut.ok
        /\ {catOut.data[j] : j \in 1 .. Len(catOut.data)}
             = C6_Expected("cli", catOut.keyword, catOut.min_rating)

\* The dashboard search on a table of numeric and missing ratings only, for
\* a positive min_rating.
C6_DashboardPositive ==
    (/\ catOut.op = "dashboard"
     /\ catOut.min_rating > 0
     /\ \A i \in 1 .. Len(catalog) : catalog[i].rating.k # "text") =>
        /\ catOut.ok
        /\ {catOut.data[j] : j \in 1 .. Len(catOut.data)}
             = C6_Expected("dashboard", catOut.keyword, catOut.min_rating)

-----------------------------------------------------------------------------
(* The stores on files left by earlier runs: loads, save(load()), reads *)

\* rm.save(rm.load())
ReminderRoundTrip ==
    /\ LET l == ReminderLoad(remFile)
       IN /\ remFile' = IF l.ok THEN ReminderSave(l.data) ELSE remFile
          /\ remOut' = [op |-> "roundtrip", ok |-> l.ok, before |-> remFile]
    /\ UNCHANGED <<clock, expVars, goalVars, catVars, sess, pandas2>>

\* em.save(em.load())
ExpenseRoundTrip ==
    /\ LET df == ExpenseLoad(expFile, pandas2)
       IN /\ expFile' = IF df.ok THEN ExpenseSave(df) ELSE expFile
          /\ expOut' = [op |-> "roundtrip", ok |-> df.ok, before |-> expFile]
    /\ UNCHANGED <<clock, budFile, remVars, goalVars, catVars, sess, pandas2>>

\* gm.save(gm.load())
GoalRoundTrip ==
    /\ LET l == GoalLoad(goalFile)
       IN /\ goalFile' = IF l.ok THEN GoalSave(l.data) ELSE goalFile
          /\ goalOut' = [op |-> "roundtrip", ok |-> l.ok, before |-> goalFile]
    /\ UNCHANGED <<clock, expVars, remVars, catVars, sess, pandas2>>

\* rm.load(), em.load(), bm.load(), gm.load() as the pages call them
LoadReminders ==
    /\ remOut' = [op |-> "load"] @@ ReminderLoad(remFile)
    /\ UNCHANGED <<clock, remFile, expVars, goalVars, catVars, sess, pandas2>>

LoadExpenses ==
    /\ LET df == ExpenseLoad(expFile, pandas2)
       IN expOut' = [op |-> "load", ok |-> df.ok, data |-> df.rows, cols |-> df.cols]
    /\ UNCHANGED <<clock, expFile, budFile, remVars, goalVars, catVars, sess, pandas2>>

LoadBudget ==
    /\ expOut' = [op |-> "load_budget"] @@ BudgetLoad(budFile)
    /\ UNCHANGED <<clock, expFile, budFile, remVars, goalVars, catVars, sess, pandas2>>

LoadGoals ==
    /\ goalOut' = [op |-> "load"] @@ GoalLoad(goalFile)
    /\ UNCHANGED <<clock, goalFile, expVars, remVars, catVars, sess, pandas2>>

StoredReminderFiles == LegacyReminderFiles \cup {Truncated}

\* expenses.csv: also one that add has rewritten (older rows as
\* "%Y-%m-%d 00:00:00", the newest as "%Y-%m-%d").
StoredExpenseFiles ==
    { Absent, Truncated, CsvDoc(<<>>),
      CsvDoc(<<ExpRow(<<"o">>, 1, IsoFormat(FirstDay - 6)),
               ExpRow(<<"p">>, 200, BadTime)>>),
      CsvDoc(<<ExpRow(<<"o">>, 1, TimestampStr(FirstDay - 1)),
               ExpRow(<<"p">>, 200, IsoFormat(FirstDay))>>) }

StoredBudgetFiles ==
    { Absent, Truncated,
      JsonDoc([weekly_budget |-> 100, week_start |-> IsoFormat(FirstDay - 1)]) }

StoredGoalFiles == LegacyGoalFiles \cup {Truncated}

InitFiles ==
    /\ clock = [day |-> FirstDay, min |-> 540]
    /\ remFile \in StoredReminderFiles /\ remOut = NoOut
    /\ expFile \in StoredExpenseFiles /\ budFile \in StoredBudgetFiles
    /\ expOut = NoOut
    /\ goalFile \in StoredGoalFiles /\ goalOut = NoOut
    /\ InitCat /\ InitSessAnyPandas

NextFiles ==
    \/ ReminderRoundTrip
    \/ ExpenseRoundTrip
    \/ GoalRoundTrip
    \/ LoadReminders
    \/ LoadExpenses
    \/ LoadBudget
    \/ LoadGoals
    \/ CheckReminders
    \/ GetSpendingInsights
    \/ GetBudgetAlerts
    \/ GetProgress

SpecFiles == InitFiles /\ [][NextFiles]_vars

-----------------------------------------------------------------------------
C3_SameFormatAsFirst(recs, k) ==
    \A j \in 1 .. Len(recs) :
        (recs[j].Date.fmt \in {"ymd", "ymdhms", "bad"}
         /\ \A h \in 1 .. (j - 1) : recs[h].Date.fmt = "empty")
        => recs[j].Date.fmt \in {recs[k].Date.fmt, "bad"}

-----------------------------------------------------------------------------
(* C10: missing files.  When the file of a store is absent its load returns *)
(* an empty collection without failing (an empty list for reminders and     *)
(* goals, an empty dict for the budget, a table of no rows with the columns *)
(* Item, Amount, Date for expenses), and check_reminders,                   *)
(* get_spending_insights, get_budget_alerts and get_progress return without *)
(* error on it.                                                             *)
C10_AbsentFilesDegrade ==
    /\ (remFile.st = "absent" /\ remOut.op \in {"load", "check"}) =>
          remOut.ok /\ remOut.data = <<>>
    /\ (expFile.st = "absent" /\ expOut.op = "load") =>
          /\ expOut.ok /\ expOut.data = <<>>
          /\ expOut.cols = <<"Item", "Amount", "Date">>
    /\ (expFile.st = "absent" /\ expOut.op = "insights") =>
          expOut.ok /\ Len(expOut.data) = 1
    /\ (budFile.st = "absent" /\ expOut.op = "load_budget") =>
          expOut.ok /\ DOMAIN expOut.data = {}
    /\ (expOut.op = "alerts"
        /\ \/ (budFile.st = "absent" /\ expFile.st # "partial")
           \/ (expFile.st = "absent" /\ budFile.st # "partial")) =>
          expOut.ok /\ expOut.data = <<>>
    /\ (goalFile.st = "absent" /\ goalOut.op = "load") =>
          goalOut.ok /\ goalOut.data = <<>>
    /\ (goalOut.op = "progress" /\ goalFile.st = "absent" /\ expFile.st # "partial") =>
          goalOut.ok /\ goalOut.data = <<>>
    /\ (goalOut.op = "progress" /\ expFile.st = "absent" /\ goalFile.st # "partial") =>
          goalOut.ok /\ Len(goalOut.data) = Len(goalFile.recs)

\* With no file at all, check_reminders, get_budget_alerts and get_progress
\* have just returned.
C10_Witness ==
    /\ remFile.st = "absent" /\ expFile.st = "absent"
    /\ budFile.st = "absent" /\ goalFile.st = "absent"
    /\ remOut.op = "check" /\ remOut.ok
    /\ expOut.op = "alerts" /\ expOut.ok
    /\ goalOut.op = "progress" /\ goalOut.ok

\* The loads and get_spending_insights likewise.
C10_WitnessLoads ==
    /\ remFile.st = "absent" /\ expFile.st = "absent" /\ goalFile.st = "absent"
    /\ remOut.op = "load" /\ expOut.op = "load" /\ goalOut.op = "load"
C10_WitnessInsights ==
    /\ expFile.st = "absent" /\ expOut.op = "insights" /\ expOut.data = <<NoDataMsg>>
\* An operation does fail on a file that is there and cannot be read.
C10_WitnessUnreadable ==
    /\ remFile.st = "partial" /\ remOut.op = "check" /\ ~remOut.ok
    /\ expFile.st = "partial" /\ expOut.op = "insights" /\ ~expOut.ok
    /\ goalFile.st = "partial" /\ goalOut.op = "load" /\ ~goalOut.ok

-----------------------------------------------------------------------------
(* Two dashboard sessions.  Streamlit runs the script of every browser      *)
(* session in a thread of its own, so two "add" handlers may interleave at  *)
(* their file operations: the load, the open(path, "w") that truncates the  *)
(* file, and the write that reaches the file when it is closed.             *)

Sessions == {1, 2}
Stores == {"reminders", "expenses", "goals"}

IdleRun == [pc |-> "idle", store |-> "none", rec |-> <<>>, local |-> <<>>]

FileOf(store) ==
    CASE store = "reminders" -> remFile
      [] store = "expenses" -> expFile
      [] OTHER -> goalFile

\* The load of the add handler of a store: [ok, data].
SessLoadOf(store) ==
    CASE store = "reminders" -> ReminderLoad(remFile)
      [] store = "expenses" ->
            [ok |-> ExpenseLoad(expFile, pandas2).ok,
             data |-> ExpenseLoad(expFile, pandas2)]
      [] OTHER -> GoalLoad(goalFile)

\* The record the add handler of a store appends, from what the user typed.
SessRecOf(store, text) ==
    CASE store = "reminders" ->
            [task |-> Strip(text), time |-> FormatDateTime(clock.day, 540),
             completed |-> FALSE]
      [] store = "expenses" -> ExpRow(text, 1, IsoFormat(clock.day))
      [] OTHER -> NewGoal(text, 12000, 12, clock.day)

\* A write-back that keeps only the record being added.
WriteBackOnlyNew(store, local, rec) ==
    CASE store = "reminders" -> ReminderSave(<<rec>>)
      [] store = "expenses" -> ExpenseSave(Concat(Frame("object", <<>>), rec))
      [] OTHER -> GoalSave(<<rec>>)

\* What the add handler writes: the list it loaded, with its record appended
\* (the file as it is on disk by then is not read again).
WriteBack(store, local, rec) ==
    CASE store = "reminders" -> ReminderSave(Append(local, rec))
      [] store = "expenses" -> ExpenseSave(Concat(local, rec))
      [] OTHER -> GoalSave(Append(local, rec))

\* The document of a writer that wrote over a longer one from offset 0: the
\* tail of the other document is left behind it.
Garbled(doc) == [st |-> "partial", recs |-> doc.recs]

SetFile(store, value) ==
    /\ remFile' = IF store = "reminders" THEN value ELSE remFile
    /\ expFile' = IF store = "expenses" THEN value ELSE expFile
    /\ goalFile' = IF store = "goals" THEN value ELSE goalFile

SessStep(s, run, event) ==
    sess' = [run |-> [sess.run EXCEPT ![s] = run],
             trace |-> Append(sess.trace, <<event, s>>)]

\* self.load() of add; an exception (a document cut short) ends the run.
SessLoad(s, store, text) ==
    /\ sess.run[s].pc = "idle"
    /\ text # <<>>
    /\ LET l == SessLoadOf(store)
       IN SessStep(s, [pc |-> IF l.ok THEN "loaded" ELSE "crashed",
                       store |-> store,
                       rec |-> SessRecOf(store, text),
                       local |-> l.data], "load")
    /\ UNCHANGED <<clock, remFile, expFile, goalFile, budFile, remOut, expOut,
                   goalOut, catVars, pandas2>>

\* open(self.file_path, "w") of save (to_csv opens its file the same way).
SessOpen(s) ==
    /\ sess.run[s].pc = "loaded"
    /\ SetFile(sess.run[s].store, Truncated)
    /\ SessStep(s, [sess.run[s] EXCEPT !.pc = "writing"], "open")
    /\ UNCHANGED <<clock, budFile, remOut, expOut, goalOut, catVars, pandas2>>

\* json.dump / to_csv and the close of the file: the document reaches the
\* file, from offset 0.  If the other session has written since this one
\* opened the file, what is left depends on the two lengths.
SessClose(s) ==
    /\ sess.run[s].pc = "writing"
    /\ LET run == sess.run[s]
           doc == WriteBack(run.store, run.local, run.rec)
       IN \E out \in (IF FileOf(run.store).st = "ok" THEN {doc, Garbled(doc)}
                      ELSE {doc}) :
             SetFile(run.store, out)
    /\ SessStep(s, [sess.run[s] EXCEPT !.pc = "done"], "close")
    /\ UNCHANGED <<clock, budFile, remOut, expOut, goalOut, catVars, pandas2>>

\* The write fails (OSError: no space left, the process is killed): the
\* exception leaves save with the file as open() left it.
SessFail(s) ==
    /\ sess.run[s].pc = "writing"
    /\ SessStep(s, [sess.run[s] EXCEPT !.pc = "failed"], "fail")
    /\ UNCHANGED <<clock, remFile, expFile, goalFile, budFile, remOut, expOut,
                   goalOut, catVars, pandas2>>

SessTexts(s) == IF s = 1 THEN {<<"a">>} ELSE {<<" ", "b", " ">>, <<"c">>}

InitConc ==
    /\ clock = [day |-> FirstDay, min |-> 540]
    /\ remFile \in {Absent,
                    JsonDoc(<<[task |-> <<"m">>, time |-> IsoFormat(FirstDay + 1),
                               completed |-> FALSE]>>)}
    /\ expFile \in {Absent, CsvDoc(<<ExpRow(<<"o">>, 1, IsoFormat(FirstDay - 6))>>)}
    /\ goalFile \in {Absent,
                     JsonDoc(<<Goal(<<"g">>, 100, 50, 1, IsoFormat(FirstDay - 29),
                                    IsoFormat(FirstDay + 1))>>)}
    /\ budFile = Absent
    /\ remOut = NoOut /\ expOut = NoOut /\ goalOut = NoOut
    /\ InitCat
    /\ pandas2 \in BOOLEAN
    /\ sess = [run |-> [s \in Sessions |-> IdleRun], trace |-> <<>>]

NextConc ==
    \/ \E s \in Sessions, store \in Stores :
         \E text \in SessTexts(s) : SessLoad(s, store, text)
    \/ \E s \in Sessions : SessOpen(s)
    \/ \E s \in Sessions : SessClose(s)
    \/ \E s \in Sessions : SessFail(s)

SpecConc == InitConc /\ [][NextConc]_vars

-----------------------------------------------------------------------------
(* C8: ReminderStore.save overwrites the persisted storage atomically: at   *)
(* every point during a save, and after a save that fails part-way, a load  *)
(* observes either the complete old list or the complete new list, never an *)
(* empty, truncated or partially written one.  (Stated for a session that   *)
(* is alone on the reminders file.)  The code does not do this: between     *)
(* open(path, "w") and the end of json.dump, and after a failed write, the  *)
(* file is empty or cut short and load raises on it.                        *)
C8_AtomicSave ==
    \A s \in Sessions :
        (/\ sess.run[s].store = "reminders"
         /\ sess.run[s].pc \in {"writing", "failed", "done"}
         /\ \A t \in Sessions \ {s} : sess.run[t].store # "reminders")
        => /\ ReminderLoad(remFile).ok
           /\ ReminderLoad(remFile).data \in
                 {sess.run[s].local, Append(sess.run[s].local, sess.run[s].rec)}

-----------------------------------------------------------------------------
(* C9: no store protects against concurrent writers.  When two add          *)
(* operations on the same store interleave as load, load, save, save, both  *)
(* complete without error and the persisted collection holds what was       *)
(* loaded plus only the record of the writer that saved last; when the two  *)
(* adds run one after the other, both records are present, in order.        *)
C9_RecKey(rec) ==
    IF "task" \in DOMAIN rec THEN rec.task
    ELSE IF "Item" \in DOMAIN rec THEN rec.Item
    ELSE rec.name

C9_Keys(recs) == [i \in 1 .. Len(recs) |-> C9_RecKey(recs[i])]

C9_LocalRecs(run) == IF run.store = "expenses" THEN run.local.rows ELSE run.local

C9_SaveOf(s) == <<<<"open", s>>, <<"close", s>>>>

C9_Interleaved(a, b) ==
    sess.trace \in {<<<<"load", a>>, <<"load", b>>>> \o C9_SaveOf(a) \o C9_SaveOf(b),
                    <<<<"load", b>>, <<"load", a>>>> \o C9_SaveOf(a) \o C9_SaveOf(b)}

C9_OneAfterTheOther(a, b) ==
    sess.trace = <<<<"load", a>>>> \o C9_SaveOf(a) \o <<<<"load", b>>>> \o C9_SaveOf(b)

C9_LastWriterWins ==
    \A a \in Sessions, b \in Sessions :
        (a # b /\ sess.run[a].store = sess.run[b].store) =>
            LET file == FileOf(sess.run[b].store)
                ra == sess.run[a]
                rb == sess.run[b]
            IN /\ C9_Interleaved(a, b) =>
                    /\ ra.pc = "done" /\ rb.pc = "done"
                    /\ file.st = "ok"
                    /\ C9_LocalRecs(ra) = C9_LocalRecs(rb)
                    /\ C9_Keys(file.recs) = Append(C9_Keys(C9_LocalRecs(rb)), C9_RecKey(rb.rec))
                    /\ \A i \in 1 .. Len(file.recs) :
                          C9_RecKey(file.recs[i]) # C9_RecKey(ra.rec)
                    /\ rb.store # "expenses" => file.recs = Append(rb.local, rb.rec)
               /\ C9_OneAfterTheOther(a, b) =>
                    /\ ra.pc = "done" /\ rb.pc = "done"
                    /\ file.st = "ok"
                    /\ C9_Keys(file.recs) =
                          C9_Keys(C9_LocalRecs(ra)) \o <<C9_RecKey(ra.rec), C9_RecKey(rb.rec)>>
                    /\ rb.store # "expenses" =>
                          file.recs = ra.local \o <<ra.rec, rb.rec>>

\* The lost update has happened: the two adds interleaved on a store that
\* held a record, and the file holds that record and the last writer's only.
C9_Witness ==
    /\ C9_Interleaved(1, 2)
    /\ sess.run[1].store = sess.run[2].store
    /\ Len(C9_LocalRecs(sess.run[2])) = 1
    /\ Len(FileOf(sess.run[2].store).recs) = 2

\* The two adds have run one after the other on the expense ledger.
C9_WitnessSequential ==
    /\ C9_OneAfterTheOther(2, 1)
    /\ sess.run[1].store = "expenses" /\ sess.run[2].store = "expenses"
    /\ Len(expFile.recs) = 3

-----------------------------------------------------------------------------
(* C11: the reminder list is append-only.  Every step of a session that     *)
(* changes reminders.json is an add or a toggle.  An add leaves the list    *)
(* as it was loaded with one record appended at its end, with              *)
(* completed = false; a toggle keeps the length and the order and differs   *)
(* from the loaded list in the completed field of the one targeted record   *)
(* only; so no record is ever removed and the list holds one record per     *)
(* add, in the order of the adds.  (The list before the step is taken as    *)
(* load returns it: a record stored without completed reads as              *)
(* completed = false.)                                                      *)
C11_Step ==
    LET before == ReminderLoad(remFile).data
        after == remFile'.recs
    IN /\ remFile' # remFile =>
            /\ remFile'.st = "ok"
            /\ remOut'.op \in {"add", "toggle"}
            /\ Len(after) >= Len(before)
            /\ \A i \in 1 .. Len(before) :
                  after[i].task = before[i].task /\ after[i].time = before[i].time
       /\ (remOut' # remOut /\ remOut'.op = "add" /\ remOut'.ok) =>
            /\ Len(after) = Len(before) + 1
            /\ SubSeq(after, 1, Len(before)) = before
            /\ after[Len(after)].completed = FALSE
            /\ DOMAIN after[Len(after)] = {"task", "time", "completed"}
       /\ (remOut' # remOut /\ remOut'.op = "toggle") =>
            /\ Len(after) = Len(before)
            /\ \E j \in 1 .. Len(before) :
                  /\ j = remOut'.data[1]
                  /\ after = [before EXCEPT ![j].completed = ~before[j].completed]

C11_AppendOnly == [][C11_Step]_vars

\* Two adds and then a toggle of the first record have run: the list holds
\* the two records in the order of the adds, the first one completed.
C11_Witness ==
    /\ remOut.op = "toggle" /\ remOut.data = <<1>>
    /\ remFile.st = "ok" /\ Len(remFile.recs) = 2
    /\ remFile.recs[1].task = <<"b">> /\ remFile.recs[1].completed
    /\ remFile.recs[2].task = <<"a">> /\ ~remFile.recs[2].completed

-----------------------------------------------------------------------------
(* C12: a goal's current_amount starts at 0 and never decreases.  As         *)
(* claimed: after every add and every update_progress(index, amount) the     *)
(* persisted current_amount of each goal is at least its value before the    *)
(* call, and a goal that add appends has current_amount 0.  update_progress  *)
(* adds the amount whatever its sign, so a negative amount breaks this.      *)
C12_CurrentAmountOf(goal) ==
    IF "current_amount" \in DOMAIN goal THEN goal.current_amount ELSE 0

C12_NotBelow(before, after) ==
    /\ Len(after.recs) >= Len(before.recs)
    /\ \A k \in 1 .. Len(before.recs) :
          C12_CurrentAmountOf(after.recs[k]) >= C12_CurrentAmountOf(before.recs[k])
    /\ \A k \in (Len(before.recs) + 1) .. Len(after.recs) :
          after.recs[k].current_amount = 0

C12_NeverDecreases ==
    (goalOut.op \in {"add", "update_progress"} /\ goalOut.ok) =>
        C12_NotBelow(goalOut.before, goalFile)

\* What the code does keep: no call with an amount >= 0, which is all the
\* "Add" button of the tab can pass, lowers a current_amount.
C12_NeverDecreasesFromTheTab ==
    (goalOut.op \in {"add", "update_progress"} /\ goalOut.ok /\ goalOut.amount >= 0) =>
        C12_NotBelow(goalOut.before, goalFile)

\* An update with a positive amount has raised the current_amount of a goal.
C12_WitnessRaised ==
    /\ goalOut.op = "update_progress" /\ goalOut.ok /\ goalOut.amount > 0
    /\ goalOut.index = 0
    /\ Len(goalFile.recs) >= 1
    /\ goalFile.recs[1].current_amount > goalOut.before.recs[1].current_amount

-----------------------------------------------------------------------------
(* The weekly budget across days: budget.json as an earlier run (or an      *)
(* editor, or a version that kept more in it) left it, a ledger with a row  *)
(* of last week, and the buttons of the expenses page.                      *)

LegacyBudgetFiles ==
    { Absent,
      JsonDoc(<<>>),
      JsonDoc([weekly_budget |-> 100, week_start |-> IsoFormat(FirstDay - 7)]),
      JsonDoc([weekly_budget |-> 100, week_start |-> IsoFormat(FirstDay - 7),
               monthly_budget |-> 4000]),
      Truncated }

InitBudget ==
    /\ clock = [day |-> FirstDay, min |-> 0]
    /\ expFile \in {Absent, CsvDoc(<<ExpRow(<<"o">>, 1000, IsoFormat(FirstDay - 6))>>)}
    /\ budFile \in LegacyBudgetFiles
    /\ expOut = NoOut
    /\ InitRem /\ InitGoal /\ InitCat /\ InitSessAnyPandas

NextBudget ==
    \/ \E item \in Items, amount \in Amounts : ExpenseAdd(item, amount)
    \/ \E amount \in Budgets : SetWeeklyBudget(amount)
    \/ GetBudgetAlerts
    \/ NewDay

SpecBudget == InitBudget /\ [][NextBudget]_vars

-----------------------------------------------------------------------------
C13_SetStep ==
    (expOut'.op = "set_budget" /\ expOut'.ok
     /\ <<expOut, budFile>>' # <<expOut, budFile>>) =>
        LET old == BudgetLoad(budFile).data
            new == budFile'.recs
        IN /\ budFile'.st = "ok"
           /\ DOMAIN new = DOMAIN old \cup {"weekly_budget", "week_start"}
           /\ new["weekly_budget"] = expOut'.data[1]
           /\ new["week_start"] = IsoFormat(clock.day)
           /\ \A k \in DOMAIN old \ {"weekly_budget", "week_start"} : new[k] = old[k]
           /\ DOMAIN old \subseteq {"weekly_budget", "week_start"} =>
                 budFile' = JsonDoc([weekly_budget |-> expOut'.data[1],
                                     week_start |-> IsoFormat(clock.day)])

C13_Counted(rows, start) ==
    SelectSeq(rows, LAMBDA r : r.Date.fmt = "Timestamp" /\ r.Date.day >= start)

C13_AlertsWindow ==
    (/\ expOut.op = "alerts"
     /\ "weekly_budget" \in DOMAIN BudgetLoad(budFile).data
     /\ ExpenseLoad(expFile, pandas2).rows # <<>>)
    =>
    LET bud == BudgetLoad(budFile).data
        counted == SumAmount(C13_Counted(ExpenseLoad(expFile, pandas2).rows,
                                         bud["week_start"].day))
    IN /\ expOut.ok
       /\ \A i \in 1 .. Len(expOut.data) : expOut.data[i].spent = counted
       /\ expOut.data = <<>> => 5 * counted < 4 * bud["weekly_budget"]

-----------------------------------------------------------------------------
(* C14: what is due now.  check_reminders returns the texts of exactly the  *)
(* reminders that are not completed and whose time parses, as date and      *)
(* time or else as a date (midnight of that day), to a moment at or before  *)
(* now, in the order of the list; a completed reminder is never returned,   *)
(* and a reminder whose time does not parse is skipped without error and    *)
(* without keeping the others from being reported.                          *)
C14_DueAt(task, now) ==
    LET dt == StrptimeDateTime(task.time)
        d == StrptimeDate(task.time)
    IN /\ ~task.completed
       /\ \/ dt.ok /\ MomentLeq([day |-> dt.day, min |-> dt.min], now)
          \/ ~dt.ok /\ d.ok /\ MomentLeq([day |-> d.day, min |-> 0], now)

C14_Texts(tasks) == [i \in 1 .. Len(tasks) |-> tasks[i].task]

C14_DueNow ==
    (remOut.op = "check" /\ ReminderLoad(remFile).ok) =>
        /\ remOut.ok
        /\ remOut.data =
             C14_Texts(SelectSeq(ReminderLoad(remFile).data,
                                 LAMBDA t : C14_DueAt(t, clock)))

\* check_reminders has just reported the one due reminder of a list whose
\* first record has a time that does not parse.
C14_Witness ==
    /\ remOut.op = "check" /\ remOut.ok
    /\ remFile.st = "ok" /\ Len(remFile.recs) = 2
    /\ remFile.recs[1].time.fmt = "bad" /\ ~remFile.recs[1].completed
    /\ remFile.recs[2].time.fmt = "ymdhm" /\ ~remFile.recs[2].completed
    /\ remOut.data = <<remFile.recs[2].task>>

\* A reminder whose time has passed is completed, and is not reported.
C14_WitnessCompleted ==
    /\ remOut.op = "check" /\ remOut.ok /\ remOut.data = <<>>
    /\ LET tasks == ReminderLoad(remFile).data
       IN \E i \in 1 .. Len(tasks) :
             /\ tasks[i].completed
             /\ StrptimeDateTime(tasks[i].time).ok
             /\ MomentLeq(StrptimeDateTime(tasks[i].time), clock)

-----------------------------------------------------------------------------
(* C15: goal progress.  get_progress returns every stored goal, in order,   *)
(* with its stored fields as they are.  A goal has days_left and            *)
(* daily_saving = (target_amount - current_amount) / days_left exactly when *)
(* its target_date parses and lies strictly after today (days_left > 0).    *)
(* A goal whose target_date does not parse is returned as stored, with no   *)
(* derived field, and the goals after it are computed all the same.         *)
C15_Derived == {"days_left", "daily_saving", "warning"}

C15_GoalProgress(stored, shown, today) ==
    LET d == StrptimeDate(stored.target_date)
        future == d.ok /\ d.day > today
    IN /\ DOMAIN stored \subseteq DOMAIN shown
       /\ DOMAIN shown \subseteq DOMAIN stored \cup C15_Derived
       /\ \A f \in DOMAIN stored : shown[f] = stored[f]
       /\ "days_left" \in DOMAIN shown <=> future
       /\ "daily_saving" \in DOMAIN shown <=> future
       /\ future =>
            /\ shown.days_left = d.day - today
            /\ shown.daily_saving =
                 [num |-> stored.target_amount - stored.current_amount,
                  den |-> d.day - today]
       /\ ~future => shown = stored

C15_Progress ==
    (goalOut.op = "progress" /\ goalOut.ok) =>
        LET goals == GoalLoad(goalFile).data
        IN /\ Len(goalOut.data) = Len(goals)
           /\ \A k \in 1 .. Len(goals) :
                 C15_GoalProgress(goals[k], goalOut.data[k], clock.day)

\* get_progress has just run on a list whose first goal has a target_date
\* that does not parse and whose second goal is due in the future: the first
\* is returned as stored, the second with its derived fields.
C15_Witness ==
    /\ goalOut.op = "progress" /\ goalOut.ok
    /\ Len(goalOut.data) = 2
    /\ goalFile.recs[1].target_date.fmt = "bad"
    /\ goalOut.data[1] = goalFile.recs[1]
    /\ "days_left" \in DOMAIN goalOut.data[2]
    /\ goalOut.data[2].days_left > 0

\* get_progress has just run on the day a goal falls due: no derived field.
C15_WitnessDueToday ==
    /\ goalOut.op = "progress" /\ goalOut.ok
    /\ Len(goalOut.data) >= 1
    /\ StrptimeDate(goalFile.recs[1].target_date).ok
    /\ StrptimeDate(goalFile.recs[1].target_date).day = clock.day
    /\ goalOut.data[1] = goalFile.recs[1]

-----------------------------------------------------------------------------
(* C16: the week-over-week insight.  As claimed: it compares the sums of    *)
(* the two chronologically most recent ISO weeks that have data, and is     *)
(* emitted exactly when at least two weeks have data and the most recent    *)
(* week's sum is greater than the previous week's, also across a year       *)
(* boundary.  The code groups by the ISO week number alone and takes the    *)
(* two largest numbers, so week 52 of one year counts as later than week 1  *)
(* of the next.                                                             *)
C16_Monday(day) == day - Weekday(day)

C16_Rows ==
    LET df == ExpenseLoad(expFile, pandas2)
    IN DropNa(WithDates(df.rows, ToDatetime(DateCol(df.rows), pandas2)))

C16_SumOfWeek(rows, monday) ==
    SumAmount(SelectSeq(rows, LAMBDA r : C16_Monday(r.Date.day) = monday))

C16_Rose(rows) ==
    LET mondays == {C16_Monday(rows[i].Date.day) : i \in 1 .. Len(rows)}
    IN /\ Cardinality(mondays) >= 2
       /\ LET latest == MaxOf(mondays)
              previous == MaxOf(mondays \ {latest})
          IN C16_SumOfWeek(rows, latest) > C16_SumOfWeek(rows, previous)

C16_Emitted == \E i \in 1 .. Len(expOut.data) : expOut.data[i].kind = "week_up"

C16_WeekOverWeek ==
    (expOut.op = "insights" /\ expOut.ok /\ ExpenseLoad(expFile, pandas2).rows # <<>>)
    => (C16_Emitted <=> C16_Rose(C16_Rows))

\* What the code does keep: the claim holds for every ledger whose dated
\* rows lie in one ISO year.
C16_IsoYear(day) == CivilFromDays(C16_Monday(day) + 3).y

C16_WithinOneYear ==
    (/\ expOut.op = "insights" /\ expOut.ok
     /\ ExpenseLoad(expFile, pandas2).rows # <<>>
     /\ \A i, j \in 1 .. Len(C16_Rows) :
           C16_IsoYear(C16_Rows[i].Date.day) = C16_IsoYear(C16_Rows[j].Date.day))
    => (C16_Emitted <=> C16_Rose(C16_Rows))

\* The insight has been emitted for a rise between two weeks of one year.
C16_WitnessWithinOneYear ==
    /\ expOut.op = "insights" /\ expOut.ok /\ C16_Emitted
    /\ Len(C16_Rows) = 2
    /\ C16_IsoYear(C16_Rows[1].Date.day) = C16_IsoYear(C16_Rows[2].Date.day)
    /\ IsoWeek(C16_Rows[1].Date.day) < IsoWeek(C16_Rows[2].Date.day)

-----------------------------------------------------------------------------
(* C17: derived goal fields are never persisted.  After any sequence of     *)
(* add, update_progress and get_progress, every goal in goals.json has      *)
(* exactly the fields name, target_amount, current_amount,                  *)
(* timeframe_months, created and target_date, and never days_left,          *)
(* daily_saving or warning; get_progress leaves goals.json unchanged.       *)
C17_StoredFields ==
    {"name", "target_amount", "current_amount", "timeframe_months", "created",
     "target_date"}

C17_OnlyStoredFields ==
    goalFile.st = "ok" =>
        \A k \in 1 .. Len(goalFile.recs) : DOMAIN goalFile.recs[k] = C17_StoredFields

C17_ProgressStep ==
    (goalOut'.op = "progress" /\ goalOut' # goalOut) => goalFile' = goalFile

C17_DerivedNotPersisted == []C17_OnlyStoredFields /\ [][C17_ProgressStep]_vars

\* After an add and an update of the added goal, get_progress has just shown
\* it with days_left and daily_saving, and goals.json holds the six fields.
C17_Witness ==
    /\ goalOut.op = "progress" /\ goalOut.ok
    /\ Len(goalFile.recs) = 2
    /\ goalFile.recs[2].name = <<"l">> /\ goalFile.recs[2].current_amount = 50
    /\ {"days_left", "daily_saving"} \subseteq DOMAIN goalOut.data[2]
    /\ DOMAIN goalFile.recs[2] = C17_StoredFields

\* get_progress has shown the warning as well (a ledger of more than ten
\* rows), and goals.json does not hold it.
C17_WitnessWarning ==
    /\ goalOut.op = "progress" /\ goalOut.ok
    /\ \E k \in 1 .. Len(goalOut.data) :
          /\ "warning" \in DOMAIN goalOut.data[k]
          /\ "warning" \notin DOMAIN goalFile.recs[k]

-----------------------------------------------------------------------------
(* C1: budget alert boundaries.  With a budget set and a ledger that is not *)
(* empty, get_budget_alerts returns exactly one "exceeded" alert when the   *)
(* amounts dated on or after week_start sum to at least the weekly budget,  *)
(* exactly one "warning" alert when they sum to at least four fifths of it  *)
(* but less than all of it, and no alert below that; never both alerts.     *)
C1_AlertBoundaries ==
    (/\ expOut.op = "alerts"
     /\ "weekly_budget" \in DOMAIN BudgetLoad(budFile).data
     /\ ExpenseLoad(expFile, pandas2).rows # <<>>)
    =>
    LET bud == BudgetLoad(budFile).data
        budget == bud["weekly_budget"]
        spent == SumAmount(RowsSince(ExpenseLoad(expFile, pandas2).rows,
                                     bud["week_start"].day))
        kinds == [i \in 1 .. Len(expOut.data) |-> expOut.data[i].kind]
    IN /\ expOut.ok
       /\ spent >= budget => kinds = <<"exceeded">>
       /\ (5 * spent >= 4 * budget /\ spent < budget) => kinds = <<"warning">>
       /\ 5 * spent < 4 * budget => kinds = <<>>
       /\ Len(kinds) <= 1

\* get_budget_alerts has just returned the warning for a spend of exactly 80%
\* of the budget.
C1_Witness ==
    /\ expOut.op = "alerts" /\ expOut.ok
    /\ "weekly_budget" \in DOMAIN BudgetLoad(budFile).data
    /\ Len(expOut.data) = 1
    /\ expOut.data[1].kind = "warning"
    /\ 5 * expOut.data[1].spent = 4 * expOut.data[1].budget

\* The other two boundaries of C1: 79.9% gives no alert, 100.0% "exceeded".
C1_WitnessBelow ==
    /\ expOut.op = "alerts" /\ expOut.ok /\ expOut.data = <<>>
    /\ "weekly_budget" \in DOMAIN BudgetLoad(budFile).data
    /\ LET bud == BudgetLoad(budFile).data
       IN 1000 * SumAmount(RowsSince(ExpenseLoad(expFile, pandas2).rows,
                                     bud["week_start"].day))
            = 799 * bud["weekly_budget"]
C1_WitnessExceeded ==
    /\ expOut.op = "alerts" /\ expOut.ok
    /\ Len(expOut.data) = 1
    /\ expOut.data[1].kind = "exceeded"
    /\ expOut.data[1].spent = expOut.data[1].budget

-----------------------------------------------------------------------------
(* C7: insights on an empty ledger.  When expenses.csv is absent or holds   *)
(* no rows, get_spending_insights returns exactly one message, the "no      *)
(* data" one, and none of the weekday, week-over-week or month-over-month   *)
(* messages.                                                                *)
C7_EmptyLedgerInsights ==
    (expOut.op = "insights" /\ (expFile.st = "absent" \/ expFile.recs = <<>>))
    =>
    /\ Len(expOut.data) = 1
    /\ expOut.data[1].kind = "no_data"
    /\ \A i \in 1 .. Len(expOut.data) :
         expOut.data[i].kind \notin {"highest_day", "week_up", "month_up"}

\* get_spending_insights has just run on a file that holds the header only.
C7_Witness ==
    /\ expOut.op = "insights"
    /\ expFile.st = "ok" /\ expFile.recs = <<>>
    /\ expOut.data = <<NoDataMsg>>

\* ... and on no file at all.
C7_WitnessAbsent ==
    /\ expOut.op = "insights"
    /\ expFile.st = "absent"
    /\ expOut.data = <<NoDataMsg>>

-----------------------------------------------------------------------------
(* C2: due_now is monotonic in time.  For the reminders.json on disk, left  *)
(* unmodified, a reminder that check_reminders reports at a moment t1 is    *)
(* reported at every later moment t2, whether its time is written with or   *)
(* without a time of day.                                                   *)
C2_DueMonotonic ==
    LET l == ReminderLoad(remFile)
    IN l.ok =>
         \A t1, t2 \in Moments :
           MomentLt(t1, t2) =>
             /\ \A i \in 1 .. Len(l.data) :
                  IsReported(l.data[i], t1) => IsReported(l.data[i], t2)
             /\ Len(Notifications(l.data, t1)) <= Len(Notifications(l.data, t2))

\* check_reminders has just reported, at the current moment, a date-only and
\* a date+time reminder, neither of which was due at the start of the window.
C2_Witness ==
    /\ remOut.op = "check" /\ remOut.ok
    /\ LET l == ReminderLoad(remFile)
           t0 == [day |-> FirstDay, min |-> 0]
       IN /\ \E i \in 1 .. Len(l.data) :
               /\ l.data[i].time.fmt = "ymd"
               /\ IsReported(l.data[i], clock) /\ ~IsReported(l.data[i], t0)
          /\ \E i \in 1 .. Len(l.data) :
               /\ l.data[i].time.fmt = "ymdhm"
               /\ IsReported(l.data[i], clock) /\ ~IsReported(l.data[i], t0)
          /\ Len(remOut.data) = 2

====
